---- MODULE Spec2Model ----
(***************************************************************************)
(* Model of the two maintenance scripts of the Kubricate documentation     *)
(* site:                                                                   *)
(*   - the markdown header refiner (packageInfo, processTarget,            *)
(*     updateMarkdownHeaders, generateMockSidebarJson, main), and          *)
(*   - the repository setup script (cloneRepo, getFullContextForLLM,       *)
(*     installDependencies, buildProject, main).                           *)
(*                                                                         *)
(* Text is a sequence of tokens.  A token is either a whitespace character *)
(* (SP, NL), the character "#", or an indivisible run of text that has no  *)
(* whitespace at either end, no line terminator and no "$"                 *)
(* (String.prototype.replace would expand "$&" and friends in the          *)
(* replacement; no description or package name of the list contains "$").  *)
(***************************************************************************)
EXTENDS Integers, Sequences, FiniteSets, TLC

VARIABLES
    \* ---- markdown header refiner ----
    index,      \* index[p]   : contents of api/<p>/index.md, or Absent
    sidebar,    \* sidebar[p] : contents of api/<p>/typedoc-sidebar.json, or Absent
    dirs,       \* dirs[p]    : TRUE iff the directory api/<p> exists
    desc,       \* desc[p]    : description of p in the packageInfo list
    rpc,        \* position of the refiner process
    cur,        \* position of the for loop in the package list
    isMock,     \* options.mock of the current run
    isClean,    \* options.clean of the current run
    branch,     \* branch[p] : what updateMarkdownHeaders did for p in this run
    wrote,      \* packages whose index.md was written (fs.writeFile) in this run
    snap,       \* index at the exit of the previous successful non-clean run
    snapValid,  \* TRUE iff snap holds such a snapshot
    stable,     \* TRUE iff nothing changed the input since snap was taken
    everCleaned,\* TRUE iff some run so far was a clean run
    runs,       \* refiner runs started so far
    edits,      \* description edits made so far
    listLen,    \* number of entries of the packageInfo list, from its head, in the run
    manifests,  \* packages whose packages/<p>/package.json can be read
    inflight,   \* packages whose manifest read has been started and has not settled
    visited,    \* packages whose api/<p> files were accessed in this run
    failedAt,   \* position in the list of the package whose step threw, 0 if none
    touched,    \* filesystem operations of this run: [op, path]
    version,    \* version[p] : the version field of the manifest of p
    \* ---- repository setup script ----
    spc,        \* position of the setup process
    force,      \* the force option of the current cloneRepo call
    repoDir,    \* state of the target directory
    dirAtCall,  \* state of the target directory when cloneRepo was called
    prev,       \* the cloneRepo call of the previous run
    log,        \* events of the current setup run, in order
    exitCode,   \* exit code of the setup process, or NoCode while it runs
    gitCalls,   \* git clone invocations over all runs
    gitArgs,    \* argument vector of the last git invocation
    running,    \* subprocesses of the setup process that have not ended
    setups,     \* setup runs started so far
    \* ---- cloneRepo called with options of any kind ----
    cUrl,       \* options.repoUrl
    cTarget,    \* options.targetDir, NotGiven when it is left out
    cForce,     \* options.force
    cFs,        \* the directories that exist
    cDir,       \* the local dir of cloneRepo, NotGiven before it is computed
    cPc,        \* position of the call
    cOps,    \* the directories git was told to clone into
    \* ---- sidebar patch of the theme ----
    pParent,    \* pParent[i] : the sidebar item that encloses item i, 0 at top level
    pHref,      \* pHref[i]   : href of the anchor of item i, NoLink without a link
    pActive,    \* the items whose element carries the class is-active
    pRoute,     \* route.path
    pMounted,   \* component instances whose mounted hook has run
    pPending,   \* watcher callbacks queued and not yet run
    pNavs       \* route changes so far

rvars == <<index, sidebar, dirs, desc, rpc, cur, isMock, isClean, branch, wrote,
           snap, snapValid, stable, everCleaned, runs, edits,
           listLen, manifests, inflight, visited, failedAt, touched, version>>
svars == <<spc, force, repoDir, dirAtCall, prev, log, exitCode, gitCalls,
           gitArgs, running, setups>>
cvars == <<cUrl, cTarget, cForce, cFs, cDir, cPc, cOps>>
pvars == <<pParent, pHref, pActive, pRoute, pMounted, pPending, pNavs>>
vars == <<rvars, svars, cvars, pvars>>

(***************************************************************************)
(* Bounds of the model.                                                    *)
(***************************************************************************)
MaxRuns == 2
MaxEdits == 1
MaxSetups == 2
MaxMounts == 2
MaxNavs == 2

(***************************************************************************)
(* Text helpers.                                                           *)
(***************************************************************************)
SP == " "
NL == "\n"
\* the value of a path at which no file exists (no text contains this token)
Absent == <<"(no such file)">>

IsWs(t) == t \in {SP, NL}

\* String.prototype.trim
RECURSIVE TrimLeft(_)
TrimLeft(s) == IF s # <<>> /\ IsWs(Head(s)) THEN TrimLeft(Tail(s)) ELSE s

RECURSIVE TrimRight(_)
TrimRight(s) ==
    IF s # <<>> /\ IsWs(s[Len(s)]) THEN TrimRight(SubSeq(s, 1, Len(s) - 1)) ELSE s

Trim(s) == TrimRight(TrimLeft(s))

\* sub occurs in s at position i (1-based)
OccursAt(s, sub, i) ==
    /\ i >= 1
    /\ i + Len(sub) - 1 <= Len(s)
    /\ SubSeq(s, i, i + Len(sub) - 1) = sub

\* String.prototype.includes
Includes(s, sub) == \E i \in 1..(Len(s) + 1) : OccursAt(s, sub, i)

\* last position of the run of whitespace that starts at position i
\* (i - 1 when s[i] is no whitespace): the greedy \s*
RECURSIVE WsEnd(_, _)
WsEnd(s, i) == IF i <= Len(s) /\ IsWs(s[i]) THEN WsEnd(s, i + 1) ELSE i - 1

\* ^ with the m flag: start of input or just after a line terminator
LineStart(s, i) == i = 1 \/ (i > 1 /\ i <= Len(s) + 1 /\ s[i - 1] = NL)


(***************************************************************************)
(* The patch substitution                                                  *)
(*   content.replace(new RegExp(`^#\\s+${escapeRegExp(fullName)}\\s*`,     *)
(*                   'm'), replacement)                                    *)
(***************************************************************************)
\* Last position of a match of ^#\s+name\s* that starts at position i, or 0
\* when there is none.  \s+ is greedy and a name never starts with
\* whitespace, so the only candidate takes the whole run of whitespace.
MatchEnd(s, name, i) ==
    IF /\ LineStart(s, i)
       /\ i + 1 <= Len(s)
       /\ s[i] = "#"
       /\ IsWs(s[i + 1])
       /\ OccursAt(s, name, WsEnd(s, i + 1) + 1)
    THEN WsEnd(s, WsEnd(s, i + 1) + 1 + Len(name))
    ELSE 0

\* Start of the leftmost match, or 0 (no g flag: only the first match counts)
MatchStart(s, name) ==
    IF \E i \in 1..Len(s) : MatchEnd(s, name, i) # 0
    THEN CHOOSE i \in 1..Len(s) :
            /\ MatchEnd(s, name, i) # 0
            /\ \A j \in 1..(i - 1) : MatchEnd(s, name, j) = 0
    ELSE 0

\* (variant: without a match the replacement is put at the head of the file)
ReplaceHeaderOrPrepend(s, name, repl) ==
    LET i == MatchStart(s, name) IN
    IF i = 0 THEN repl \o <<NL, NL>> \o s
    ELSE SubSeq(s, 1, i - 1) \o repl \o SubSeq(s, MatchEnd(s, name, i) + 1, Len(s))

\* String.prototype.replace with that pattern
ReplaceHeader(s, name, repl) ==
    LET i == MatchStart(s, name) IN
    IF i = 0 THEN s
    ELSE SubSeq(s, 1, i - 1) \o repl \o SubSeq(s, MatchEnd(s, name, i) + 1, Len(s))

(***************************************************************************)
(* Package list and header block.                                          *)
(***************************************************************************)
GENERATED_MARKER == <<"<!-- @generated -->">>

\* (variant: the list without its last entry)
PackageInfoNamesShort ==
    <<"kubricate", "core", "plugin-env", "plugin-kubernetes", "stacks">>

\* The names of the packageInfo list, in list order.
PackageInfoNames ==
    <<"kubricate", "core", "plugin-env", "plugin-kubernetes", "stacks", "toolkit">>

\* The entries of the list that the run iterates over.
PkgOrder == SubSeq(PackageInfoNames, 1, listLen)
Packages == {PkgOrder[i] : i \in 1..Len(PkgOrder)}

\* packageJson.name of the package's manifest
FullName(p) == IF p = "kubricate" THEN <<"kubricate">> ELSE <<"@kubricate/", p>>

\* (the back quotes around .env in the third description are left out: a
\* description is one opaque token of text)
\* The description of the list entry, and the texts an edit of the entry may
\* put in its place (one unrelated, one that extends the original).
StaticDescription(p) ==
    CASE p = "kubricate" -> <<"CLI for configuration and manifest generation">>
      [] p = "core" -> <<"Core framework for creating and managing stacks">>
      [] p = "plugin-env" -> <<"Secret connector for .env and environment variables">>
      [] p = "plugin-kubernetes" -> <<"Kubernetes connectors">>
      [] p = "stacks" -> <<"Official reusable stack definitions">>
      [] p = "toolkit" -> <<"Utility functions for custom stack authors">>
Descriptions(p) ==
    { StaticDescription(p),
      <<"Rewritten description">>,
      StaticDescription(p) \o <<SP, "(beta)">> }

LinkLine(p) == <<"[All Packages](../index.md)", SP, "/", SP>> \o FullName(p)
NewHeader(p) == <<"#", SP>> \o FullName(p) \o <<SP, "Documentation">>

\* (variant: the header block without the marker, titled "API Documentation")
TargetContentLegacy(p, d) ==
    LinkLine(p) \o <<NL, NL>>
        \o <<"#", SP>> \o FullName(p) \o <<SP, "API", SP, "Documentation">>
        \o <<NL, NL>> \o d \o <<NL, NL>>

\* (variant: the title carries the version of the manifest)
TargetContentVersioned(p, d) ==
    GENERATED_MARKER \o <<NL, NL>> \o LinkLine(p) \o <<NL, NL>>
        \o <<"#", SP>> \o FullName(p) \o <<SP, version[p], SP, "Documentation">>
        \o <<NL, NL>> \o d \o <<NL, NL>>

\* processTarget(pkg).target.content for description d
TargetContent(p, d) ==
    GENERATED_MARKER \o <<NL, NL>> \o LinkLine(p) \o <<NL, NL>>
        \o NewHeader(p) \o <<NL, NL>> \o d \o <<NL, NL>>

\* (variant: the skip test looks for the content with its trailing blank line)
IsUpToDateUntrimmed(content, target) ==
    Includes(content, GENERATED_MARKER) /\ Includes(content, target)

\* the skip test of updateMarkdownHeaders
IsUpToDate(content, target) ==
    Includes(content, GENERATED_MARKER) /\ Includes(content, Trim(target))

\* (variant: the create branch writes the trimmed content, as the patch does)
CreatedFileTrimmed(target) == Trim(target)

\* what the create branch writes
CreatedFile(target) == target

\* what the patch branch writes
PatchedFile(content, name, target) == ReplaceHeader(content, name, Trim(target))

\* (variant: the stub is an empty array)
MockSidebarEmpty(p) == <<"[]">>

\* JSON.stringify(mockSideBarJson): one entry
MockSidebar(p) ==
    <<"[{\"text\":\"Home\",\"link\":\"", "api/", p, "/", "\",\"collapsed\":false}]">>

(***************************************************************************)
(* Index files the refiner may find when it starts: what the API           *)
(* documentation generator, an earlier version of the refiner or an        *)
(* earlier run may have left in api/<p>/index.md.                          *)
(***************************************************************************)
Members == <<"## Classes">>

InitialIndexFiles(p) ==
    LET N == FullName(p)
        H == <<"#", SP>> \o N
    IN  { Absent,
          <<>>,
          Members,                                         \* no heading
          H,                                               \* bare heading
          H \o <<NL, NL>> \o Members,                      \* generator output
          <<"#", SP, SP>> \o N \o <<SP, NL>> \o Members,
          <<"intro", NL>> \o H \o <<NL>> \o Members \o <<NL>> \o H \o <<NL>>,
          <<"intro", SP>> \o H \o <<NL>>,                  \* "#" not at a line start
          <<"#">> \o N \o <<NL>>,                          \* no space after "#"
          H \o <<"-extra", NL>> \o Members,                \* longer name
          H \o <<SP, "API", SP, "Documentation", NL, NL>>
            \o <<"Rewritten description">> \o <<NL, NL>> \o Members }
        \cup { TargetContent(p, d) : d \in Descriptions(p) }
        \cup { TargetContent(p, d) \o Members : d \in Descriptions(p) }

\* The index files the packages after the first start with: the first
\* package of the list goes through every file of InitialIndexFiles, the
\* others through the usual ones (the steps of different packages share no
\* file).
UsualIndexFiles(p) ==
    LET H == <<"#", SP>> \o FullName(p)
    IN  { Absent,
          <<>>,
          H,
          H \o <<NL, NL>> \o Members,
          TargetContent(p, StaticDescription(p)) \o Members }

(***************************************************************************)
(* The markdown header refiner.                                            *)
(***************************************************************************)
\* Paths are sequences of segments.
TYPEDOC_SITEBAR_JSON == "typedoc-sidebar.json"

KUBRICATE_TARGET_PATH == <<".vitepress", "cache", "kubricate">>

\* packageDir joined with package.json
ManifestPath(p) == KUBRICATE_TARGET_PATH \o <<"packages", p, "package.json">>

\* (variant: the target path is the api directory itself)
ApiPathRoot(p) == <<"api">>

\* processTarget(pkg).target.path
ApiPath(p) == <<"api", p>>

IndexPath(p) == ApiPath(p) \o <<"index.md">>

SidebarPath(p) == ApiPath(p) \o <<TYPEDOC_SITEBAR_JSON>>

Op(o, path) == [op |-> o, path |-> path]

\* the versions a manifest may carry, in release order
VersionNames == <<"0.19.0", "0.19.1", "0.20.0">>

\* (variant: fs.rm without force)
RmOutcomeNoForce(exists) == IF exists THEN "ok" ELSE "ENOENT"

\* fs.rm(dir, {recursive: true, force: true}): a missing dir is not an error
RmOutcome(exists) == "ok"

NoBranch == [p \in Packages |-> "none"]

\* the sidebar file the API documentation generator writes next to an
\* index file it has generated
GeneratedSidebar == <<"[{\"text\":\"Classes\",\"collapsed\":true,\"items\":[]}]">>

RInit ==
    /\ listLen = 2      \* kubricate and core
    /\ index \in [Packages -> UNION {InitialIndexFiles(p) : p \in Packages}]
    /\ \A p \in Packages : index[p] \in InitialIndexFiles(p)
    /\ \A i \in 2..listLen : index[PkgOrder[i]] \in UsualIndexFiles(PkgOrder[i])
    /\ sidebar = [p \in Packages |->
                    IF index[p] # Absent /\ Includes(index[p], Members)
                    THEN GeneratedSidebar ELSE Absent]
    /\ manifests \in {Packages, Packages \ {PkgOrder[listLen]}}
    /\ inflight = {}
    /\ touched = {}
    /\ version = [p \in Packages |-> VersionNames[1]]
    /\ visited = {}
    /\ failedAt = 0
    /\ dirs = [p \in Packages |-> index[p] # Absent]
    /\ desc = [p \in Packages |-> StaticDescription(p)]
    /\ rpc = "idle"
    /\ cur = 1
    /\ isMock = FALSE
    /\ isClean = FALSE
    /\ branch = NoBranch
    /\ wrote = {}
    /\ snap = index
    /\ snapValid = FALSE
    /\ stable = FALSE
    /\ everCleaned = FALSE
    /\ runs = 0
    /\ edits = 0

\* where the for loop of main goes after the package at position i
AfterPackage(i, mock) ==
    IF i >= Len(PkgOrder) THEN "done" ELSE IF mock THEN "sidebar" ELSE "headers"

\* (variant: the mock option is looked at before the clean option)
FirstStepMockFirst(mock, clean) ==
    IF mock THEN "sidebar" ELSE IF clean THEN "clean" ELSE "headers"

\* the loop main enters once the manifests are resolved
FirstStep(mock, clean) ==
    IF clean THEN "clean" ELSE IF mock THEN "sidebar" ELSE "headers"

\* (variant: main goes on as soon as one manifest is resolved)
AnySettled(pending) == TRUE

\* Promise.all resolves when every promise of the array has resolved
AllSettled(pending) == pending = {}

\* (variant: a manifest that cannot be read resolves to defaults)
ReadOutcomeDefaulted(readable) == "resolved"

\* getPackageInfo: fs.readFile of the manifest resolves or rejects
ReadOutcome(readable) == IF readable THEN "resolved" ELSE "rejected"

\* (variant: the error is logged and the loop goes on with the next package)
OnThrowLogged(i, mock) == [pc |-> AfterPackage(i, mock), cur |-> i + 1]

\* an error thrown by a step of the loop: nothing in main catches it
OnThrow(i, mock) == [pc |-> "failed", cur |-> i]

\* main up to its first await: parseArguments, then getPackageInfo is called
\* for every entry of the list and each call starts to read its manifest
RefinerStart(mock, clean) ==
    /\ rpc = "idle"
    /\ runs < MaxRuns
    /\ runs' = runs + 1
    /\ isMock' = mock
    /\ isClean' = clean
    /\ cur' = 1
    /\ branch' = NoBranch
    /\ wrote' = {}
    /\ inflight' = Packages
    /\ visited' = {}
    /\ touched' = {Op("read", ManifestPath(p)) : p \in Packages}
    /\ failedAt' = 0
    /\ rpc' = "resolving"
    /\ everCleaned' = (everCleaned \/ clean)
    /\ UNCHANGED <<index, sidebar, dirs, desc, snap, snapValid, stable, edits>>
    /\ UNCHANGED <<version, listLen, manifests>>
    /\ UNCHANGED <<svars, cvars, pvars>>

\* the manifest read of p settles; when the last one has resolved, Promise.all
\* resolves, processTarget is applied and main enters its loop; when one
\* rejects, Promise.all rejects and so does main
ManifestRead(p) ==
    /\ rpc = "resolving"
    /\ p \in inflight
    /\ inflight' = inflight \ {p}
    /\ rpc' = IF ReadOutcome(p \in manifests) = "rejected" THEN "failed"
              ELSE IF AllSettled(inflight') THEN FirstStep(isMock, isClean)
              ELSE "resolving"
    /\ UNCHANGED <<index, sidebar, dirs, desc, cur, isMock, isClean, branch, wrote,
                   snap, snapValid, stable, everCleaned, runs, edits>>
    /\ UNCHANGED <<version, listLen, manifests, visited, failedAt, touched>>
    /\ UNCHANGED <<svars, cvars, pvars>>

\* one iteration of the clean loop: fs.rm(api/<p>, {recursive, force})
CleanPackage ==
    /\ rpc = "clean"
    /\ LET p == PkgOrder[cur]
           ok == RmOutcome(dirs[p]) = "ok"
       IN
        /\ index' = [index EXCEPT ![p] = Absent]
        /\ sidebar' = [sidebar EXCEPT ![p] = Absent]
        /\ dirs' = [dirs EXCEPT ![p] = FALSE]
        /\ visited' = visited \cup {p}
        /\ touched' = touched \cup {Op("rm", ApiPath(p))}
        /\ failedAt' = IF ok THEN failedAt ELSE cur
        /\ cur' = IF ok THEN cur + 1 ELSE cur
        /\ rpc' = IF ~ok THEN "failed"
                  ELSE IF cur >= Len(PkgOrder) THEN "done" ELSE "clean"
    /\ UNCHANGED <<desc, isMock, isClean, branch, wrote, snap, snapValid, stable,
                   everCleaned, runs, edits>>
    /\ UNCHANGED <<version, listLen, manifests, inflight>>
    /\ UNCHANGED <<svars, cvars, pvars>>

GenerateMockSidebarJson ==
    /\ rpc = "sidebar"
    /\ LET p == PkgOrder[cur] IN
        /\ dirs' = [dirs EXCEPT ![p] = TRUE]
        /\ sidebar' = [sidebar EXCEPT ![p] = MockSidebar(p)]
        /\ visited' = visited \cup {p}
        /\ touched' = touched \cup {Op("mkdir", ApiPath(p)), Op("write", SidebarPath(p))}
    /\ rpc' = "headers"
    /\ UNCHANGED <<index, desc, cur, isMock, isClean, branch, wrote, snap,
                   snapValid, stable, everCleaned, runs, edits>>
    /\ UNCHANGED <<version, listLen, manifests, inflight, failedAt>>
    /\ UNCHANGED <<svars, cvars, pvars>>

\* generateMockSidebarJson throws: fs.mkdir failed (made = FALSE), or
\* fs.writeFile failed after the directory was made
GenerateMockSidebarJsonThrows(made) ==
    /\ rpc = "sidebar"
    /\ LET p == PkgOrder[cur] IN
        /\ dirs' = [dirs EXCEPT ![p] = dirs[p] \/ made]
        /\ visited' = visited \cup {p}
        /\ touched' = touched \cup (IF made THEN {Op("mkdir", ApiPath(p))} ELSE {})
    /\ failedAt' = cur
    /\ rpc' = OnThrow(cur, isMock).pc
    /\ cur' = OnThrow(cur, isMock).cur
    /\ UNCHANGED <<index, sidebar, desc, isMock, isClean, branch, wrote, snap,
                   snapValid, stable, everCleaned, runs, edits>>
    /\ UNCHANGED <<version, listLen, manifests, inflight>>
    /\ UNCHANGED <<svars, cvars, pvars>>

UpdateMarkdownHeaders ==
    /\ rpc = "headers"
    /\ LET p == PkgOrder[cur]
           target == TargetContent(p, desc[p])
       IN
        /\ visited' = visited \cup {p}
        /\ IF index[p] = Absent
           THEN /\ dirs' = [dirs EXCEPT ![p] = TRUE]
                /\ index' = [index EXCEPT ![p] = CreatedFile(target)]
                /\ wrote' = wrote \cup {p}
                /\ branch' = [branch EXCEPT ![p] = "create"]
                /\ touched' = touched \cup {Op("mkdir", ApiPath(p)), Op("write", IndexPath(p))}
           ELSE IF IsUpToDate(index[p], target)
           THEN /\ branch' = [branch EXCEPT ![p] = "skip"]
                /\ touched' = touched \cup {Op("read", IndexPath(p))}
                /\ UNCHANGED <<index, dirs, wrote>>
           ELSE /\ index' = [index EXCEPT ![p] = PatchedFile(index[p], FullName(p), target)]
                /\ wrote' = wrote \cup {p}
                /\ branch' = [branch EXCEPT ![p] = "patch"]
                /\ touched' = touched \cup {Op("read", IndexPath(p)), Op("write", IndexPath(p))}
                /\ UNCHANGED dirs
    /\ cur' = cur + 1
    /\ rpc' = AfterPackage(cur, isMock)
    /\ UNCHANGED <<sidebar, desc, isMock, isClean, snap, snapValid, stable,
                   everCleaned, runs, edits>>
    /\ UNCHANGED <<version, listLen, manifests, inflight, failedAt>>
    /\ UNCHANGED <<svars, cvars, pvars>>

\* updateMarkdownHeaders throws "Failed to process ...": fs.mkdir, fs.readFile
\* or fs.writeFile failed; made = TRUE when the create branch had made the
\* directory before its write failed
UpdateMarkdownHeadersThrows(made) ==
    /\ rpc = "headers"
    /\ LET p == PkgOrder[cur] IN
        /\ made => index[p] = Absent
        /\ dirs' = [dirs EXCEPT ![p] = dirs[p] \/ made]
        /\ visited' = visited \cup {p}
        /\ touched' = touched \cup (IF made THEN {Op("mkdir", ApiPath(p))} ELSE {})
    /\ failedAt' = cur
    /\ rpc' = OnThrow(cur, isMock).pc
    /\ cur' = OnThrow(cur, isMock).cur
    /\ UNCHANGED <<index, sidebar, desc, isMock, isClean, branch, wrote, snap,
                   snapValid, stable, everCleaned, runs, edits>>
    /\ UNCHANGED <<version, listLen, manifests, inflight>>
    /\ UNCHANGED <<svars, cvars, pvars>>

\* what is left of the variables of a process when it has ended
ProcessGone ==
    /\ cur' = 1
    /\ isMock' = FALSE
    /\ isClean' = FALSE
    /\ branch' = NoBranch
    /\ wrote' = {}
    /\ inflight' = {}
    /\ visited' = {}
    /\ failedAt' = 0
    /\ touched' = {}

\* main returns and the process ends
RefinerExit ==
    /\ rpc = "done"
    /\ rpc' = "idle"
    /\ snap' = index
    /\ snapValid' = (~isClean /\ failedAt = 0)
    /\ stable' = (~isClean /\ failedAt = 0)
    /\ ProcessGone
    /\ UNCHANGED <<index, sidebar, dirs, desc, everCleaned, runs, edits>>
    /\ UNCHANGED <<version, listLen, manifests>>
    /\ UNCHANGED <<svars, cvars, pvars>>

\* the promise of main is rejected and nothing handles it: the process is
\* terminated, with the manifest reads that were still in flight
RefinerCrash ==
    /\ rpc = "failed"
    /\ rpc' = "idle"
    /\ snapValid' = FALSE
    /\ stable' = FALSE
    /\ ProcessGone
    /\ UNCHANGED <<index, sidebar, dirs, desc, snap, everCleaned, runs, edits>>
    /\ UNCHANGED <<version, listLen, manifests>>
    /\ UNCHANGED <<svars, cvars, pvars>>

\* between two runs a maintainer edits the description of a list entry
EditDescription(p, d) ==
    /\ rpc = "idle"
    /\ edits < MaxEdits
    /\ d # desc[p]
    /\ desc' = [desc EXCEPT ![p] = d]
    /\ edits' = edits + 1
    /\ stable' = FALSE
    /\ UNCHANGED <<index, sidebar, dirs, rpc, cur, isMock, isClean, branch, wrote,
                   snap, snapValid, everCleaned, runs>>
    /\ UNCHANGED <<version, listLen, manifests, inflight, visited, failedAt, touched>>
    /\ UNCHANGED <<svars, cvars, pvars>>

\* between two runs a release of the companion repository raises the version
\* field of every manifest
BumpVersion ==
    /\ rpc = "idle"
    /\ \E n \in 1..(Len(VersionNames) - 1) :
            /\ \A p \in Packages : version[p] = VersionNames[n]
            /\ version' = [p \in Packages |-> VersionNames[n + 1]]
    /\ UNCHANGED <<index, sidebar, dirs, desc, rpc, cur, isMock, isClean, branch, wrote,
                   snap, snapValid, stable, everCleaned, runs, edits>>
    /\ UNCHANGED <<listLen, manifests, inflight, visited, failedAt, touched>>
    /\ UNCHANGED <<svars, cvars, pvars>>

RNext ==
    \/ \E mock \in BOOLEAN, clean \in BOOLEAN : RefinerStart(mock, clean)
    \/ \E p \in Packages : ManifestRead(p)
    \/ CleanPackage
    \/ GenerateMockSidebarJson
    \/ \E made \in BOOLEAN : GenerateMockSidebarJsonThrows(made)
    \/ UpdateMarkdownHeaders
    \/ \E made \in BOOLEAN : UpdateMarkdownHeadersThrows(made)
    \/ RefinerExit
    \/ RefinerCrash
    \/ \E p \in Packages : \E d \in Descriptions(p) : EditDescription(p, d)

(***************************************************************************)
(* The repository setup script.  One run of the script is one process;     *)
(* the target directory outlives it.  main passes force: false; the force  *)
(* option of cloneRepo is drawn from BOOLEAN so that both values of the    *)
(* option are covered.  Every subprocess is spawned, then awaited, and     *)
(* either succeeds or fails.                                               *)
(*                                                                         *)
(* repoDir: "none" (no directory), "partial" (left by a clone that did not *)
(* complete), "cloned", "installed", "built".                              *)
(* exitCode: -1 while the process runs, then process.exit's argument, or 0 *)
(* when the process ends by itself.                                        *)
(***************************************************************************)
SInit ==
    /\ spc = "exited"
    /\ force = FALSE
    /\ repoDir \in {"none", "cloned"}
    /\ dirAtCall = repoDir
    /\ prev = [valid |-> FALSE, force |-> FALSE, returned |-> FALSE, gitsBefore |-> 0]
    /\ log = <<>>
    /\ exitCode = 0
    /\ gitCalls = 0
    /\ gitArgs = <<>>
    /\ running = {}
    /\ setups = 0

\* the arguments main passes to cloneRepo
RepoUrl == "https://github.com/thaitype/kubricate.git"

Branch == "main"

TargetDir == ".vitepress/cache/kubricate"

Exists(dir) == dir # "none"

Events(l) == {l[i] : i \in 1..Len(l)}

\* the cloneRepo call of the run with events l returned to main
Returned(l) == "skipped" \in Events(l) \/ "git ok" \in Events(l)

\* git clone invocations before the run with events l, n being the count now
GitsBefore(l, n) == IF "git" \in Events(l) THEN n - 1 ELSE n

\* (variant: main does not gather the LLM context)
NextStepNoContext(step) ==
    CASE step = "clone" -> "install"
      [] step = "llm" -> "install"
      [] step = "install" -> "build"
      [] step = "build" -> "resolved"

\* the body of main: what it awaits after each step
NextStep(step) ==
    CASE step = "clone" -> "llm"
      [] step = "llm" -> "install"
      [] step = "install" -> "build"
      [] step = "build" -> "resolved"

\* the script is started: main up to the call of cloneRepo
SetupStart(f) ==
    /\ spc = "exited"
    /\ setups < MaxSetups
    /\ setups' = setups + 1
    /\ spc' = "cloneRepo"
    /\ force' = f
    /\ dirAtCall' = repoDir
    /\ prev' = [valid |-> setups > 0, force |-> force,
                returned |-> Returned(log), gitsBefore |-> GitsBefore(log, gitCalls)]
    /\ log' = <<>>
    /\ exitCode' = -1
    /\ UNCHANGED <<repoDir, gitCalls>>
    /\ UNCHANGED <<running, gitArgs>>
    /\ UNCHANGED <<rvars, cvars, pvars>>

\* (variant: an existing directory is never skipped)
AfterExistsCheckNoSkip(exists, f) == IF exists /\ f THEN "remove" ELSE "git"

\* (variant: force does not remove the existing directory)
AfterExistsCheckNoRemove(exists, f) == IF exists /\ ~f THEN "skip" ELSE "git"

\* cloneRepo, the test of the target directory: where control goes
AfterExistsCheck(exists, f) ==
    IF exists THEN (IF ~f THEN "skip" ELSE "remove") ELSE "git"

CloneRepoEnter ==
    /\ spc = "cloneRepo"
    /\ spc' = AfterExistsCheck(Exists(repoDir), force)
    /\ UNCHANGED <<force, repoDir, dirAtCall, prev, log, exitCode, gitCalls, setups>>
    /\ UNCHANGED <<running, gitArgs>>
    /\ UNCHANGED <<rvars, cvars, pvars>>

\* cloneRepo logs "Skipped" and returns
CloneSkip ==
    /\ spc = "skip"
    /\ log' = Append(log, "skipped")
    /\ spc' = NextStep("clone")
    /\ UNCHANGED <<force, repoDir, dirAtCall, prev, exitCode, gitCalls, setups>>
    /\ UNCHANGED <<running, gitArgs>>
    /\ UNCHANGED <<rvars, cvars, pvars>>

\* rmSync(dir, {recursive, force})
CloneRemove ==
    /\ spc = "remove"
    /\ repoDir' = "none"
    /\ log' = Append(log, "removed")
    /\ spc' = "git"
    /\ UNCHANGED <<force, dirAtCall, prev, exitCode, gitCalls, setups>>
    /\ UNCHANGED <<running, gitArgs>>
    /\ UNCHANGED <<rvars, cvars, pvars>>

\* (variant: the catch block logs the error and returns)
OutcomeSwallowed(next, ok) == [pc |-> next, code |-> -1]

\* What follows a subprocess: the next position of main when it succeeded,
\* the catch block's process.exit(1) when it failed.
Outcome(next, ok) ==
    IF ok THEN [pc |-> next, code |-> -1] ELSE [pc |-> "exited", code |-> 1]

\* what git clone leaves in a directory that did not exist
AfterGit(ok) == IF ok THEN {"cloned"} ELSE {"none", "partial"}

\* (variant: the subprocess is spawned and not awaited)
AfterSpawnDetached(step, next) == next

\* await execa(...): the caller is suspended until the subprocess it has
\* spawned ends
AfterSpawn(step, next) ==
    CASE step = "git" -> "git.await"
      [] step = "llm" -> "llm.await"
      [] step = "install" -> "install.await"
      [] step = "build" -> "build.await"

\* (variant: the clone fetches every branch)
GitArgsAllBranches(url, br, dir) == <<"clone", "--branch", br, url, dir>>

\* the argument vector of the git subprocess
GitArgs(url, br, dir) == <<"clone", "--branch", br, "--single-branch", url, dir>>

\* cloneRepo: execa('git', ['clone', ...]) is spawned
GitCloneStart ==
    /\ spc = "git"
    /\ gitCalls' = gitCalls + 1
    /\ gitArgs' = GitArgs(RepoUrl, Branch, TargetDir)
    /\ running' = running \cup {"git"}
    /\ log' = Append(log, "git")
    /\ spc' = AfterSpawn("git", NextStep("clone"))
    /\ UNCHANGED <<force, repoDir, dirAtCall, prev, exitCode, setups>>
    /\ UNCHANGED <<rvars, cvars, pvars>>

\* the git subprocess ends, cloneRepo returns or exits
\* (git refuses to clone into a directory that exists and is not empty)
GitClone(ok) ==
    /\ spc = "git.await"
    /\ ok => ~Exists(repoDir)
    /\ running' = running \ {"git"}
    /\ repoDir' \in (IF Exists(repoDir) THEN {repoDir} ELSE AfterGit(ok))
    /\ log' = Append(log, IF ok THEN "git ok" ELSE "git failed")
    /\ spc' = Outcome(NextStep("clone"), ok).pc
    /\ exitCode' = Outcome(NextStep("clone"), ok).code
    /\ UNCHANGED <<force, dirAtCall, prev, gitCalls, gitArgs, setups>>
    /\ UNCHANGED <<rvars, cvars, pvars>>

\* getFullContextForLLM: gleanup is spawned inside the directory
GetFullContextForLLMStart ==
    /\ spc = "llm"
    /\ running' = running \cup {"llm"}
    /\ log' = Append(log, "llm")
    /\ spc' = AfterSpawn("llm", NextStep("llm"))
    /\ UNCHANGED <<force, repoDir, dirAtCall, prev, exitCode, gitCalls, gitArgs, setups>>
    /\ UNCHANGED <<rvars, cvars, pvars>>

\* gleanup ends; its output is copied to public/assets/llm/full.txt
GetFullContextForLLM(ok) ==
    /\ spc = "llm.await"
    /\ running' = running \ {"llm"}
    /\ log' = Append(log, IF ok THEN "llm ok" ELSE "llm failed")
    /\ spc' = Outcome(NextStep("llm"), ok).pc
    /\ exitCode' = Outcome(NextStep("llm"), ok).code
    /\ UNCHANGED <<force, repoDir, dirAtCall, prev, gitCalls, gitArgs, setups>>
    /\ UNCHANGED <<rvars, cvars, pvars>>

\* installDependencies: pnpm install is spawned
InstallDependenciesStart ==
    /\ spc = "install"
    /\ running' = running \cup {"install"}
    /\ log' = Append(log, "install")
    /\ spc' = AfterSpawn("install", NextStep("install"))
    /\ UNCHANGED <<force, repoDir, dirAtCall, prev, exitCode, gitCalls, gitArgs, setups>>
    /\ UNCHANGED <<rvars, cvars, pvars>>

\* pnpm install ends
InstallDependencies(ok) ==
    /\ spc = "install.await"
    /\ running' = running \ {"install"}
    /\ log' = Append(log, IF ok THEN "install ok" ELSE "install failed")
    /\ repoDir' = IF ok /\ repoDir = "cloned" THEN "installed" ELSE repoDir
    /\ spc' = Outcome(NextStep("install"), ok).pc
    /\ exitCode' = Outcome(NextStep("install"), ok).code
    /\ UNCHANGED <<force, dirAtCall, prev, gitCalls, gitArgs, setups>>
    /\ UNCHANGED <<rvars, cvars, pvars>>

\* buildProject: pnpm build is spawned
BuildProjectStart ==
    /\ spc = "build"
    /\ running' = running \cup {"build"}
    /\ log' = Append(log, "build")
    /\ spc' = AfterSpawn("build", NextStep("build"))
    /\ UNCHANGED <<force, repoDir, dirAtCall, prev, exitCode, gitCalls, gitArgs, setups>>
    /\ UNCHANGED <<rvars, cvars, pvars>>

\* pnpm build ends
BuildProject(ok) ==
    /\ spc = "build.await"
    /\ running' = running \ {"build"}
    /\ log' = Append(log, IF ok THEN "build ok" ELSE "build failed")
    /\ repoDir' = IF ok /\ repoDir = "installed" THEN "built" ELSE repoDir
    /\ spc' = Outcome(NextStep("build"), ok).pc
    /\ exitCode' = Outcome(NextStep("build"), ok).code
    /\ UNCHANGED <<force, dirAtCall, prev, gitCalls, gitArgs, setups>>
    /\ UNCHANGED <<rvars, cvars, pvars>>

\* main().then(...): the success message, and the process ends
SetupSuccess ==
    /\ spc = "resolved"
    /\ log' = Append(log, "success")
    /\ spc' = "exited"
    /\ exitCode' = 0
    /\ UNCHANGED <<force, repoDir, dirAtCall, prev, gitCalls, setups>>
    /\ UNCHANGED <<running, gitArgs>>
    /\ UNCHANGED <<rvars, cvars, pvars>>



SNext ==
    \/ \E f \in BOOLEAN : SetupStart(f)
    \/ CloneRepoEnter
    \/ CloneSkip
    \/ CloneRemove
    \/ GitCloneStart
    \/ \E ok \in BOOLEAN : GitClone(ok)
    \/ GetFullContextForLLMStart
    \/ \E ok \in BOOLEAN : GetFullContextForLLM(ok)
    \/ InstallDependenciesStart
    \/ \E ok \in BOOLEAN : InstallDependencies(ok)
    \/ BuildProjectStart
    \/ \E ok \in BOOLEAN : BuildProject(ok)
    \/ SetupSuccess

(***************************************************************************)
(* cloneRepo as a function of its options.  main always passes targetDir;  *)
(* here the option may be left out, and repoUrl is any of a few URLs.  A    *)
(* URL is a sequence of tokens: "/", ".git", and runs of other characters. *)
(***************************************************************************)
NotGiven == <<>>

Urls ==
    { <<"https:", "/", "/", "github.com", "/", "thaitype", "/", "kubricate", ".git">>,
      <<"https:", "/", "/", "github.com", "/", "thaitype", "/", "kubricate">>,
      <<"https:", "/", "/", "github.com", "/", "thaitype", "/", "kubricate", ".git", "/">>,
      <<"https:", "/", "/", "github.com", "/", "thaitype", "/", "kubricate", ".git", ".git">>,
      <<"https:", "/", "/", "github.com", "/", "thaitype", "/", ".git", "hub">>,
      <<"git@github.com:kubricate", ".git">>,
      <<"https:", "/", "/", "github.com", "/", "kubricate", ".git", "/", "docs">> }

\* the directories that may exist when cloneRepo is called
CandidateDirs ==
    { <<"kubricate">>, <<"kubricate", ".git">>, <<"docs">>, <<".vitepress/cache/kubricate">> }

\* position of the last "/" of s, 0 if it has none
LastSlash(s) ==
    IF \E i \in 1..Len(s) : s[i] = "/"
    THEN CHOOSE i \in 1..Len(s) : s[i] = "/" /\ \A j \in (i + 1)..Len(s) : s[j] # "/"
    ELSE 0

\* (variant: the first segment of the URL)
PopFirst(s) ==
    IF \E i \in 1..Len(s) : s[i] = "/"
    THEN SubSeq(s, 1, (CHOOSE i \in 1..Len(s) : s[i] = "/" /\ \A j \in 1..(i - 1) : s[j] # "/") - 1)
    ELSE s

\* repoUrl.split('/').pop(): the array is never empty, so pop() is defined
Pop(s) == SubSeq(s, LastSlash(s) + 1, Len(s))

\* .replace(/\.git$/, '')
StripDotGit(seg) ==
    IF Len(seg) > 0 /\ seg[Len(seg)] = ".git" THEN SubSeq(seg, 1, Len(seg) - 1) ELSE seg

\* (variant: the name is the first segment)
RepoNameFirst(url) == StripDotGit(PopFirst(url))

RepoName(url) == StripDotGit(Pop(url))

\* const dir = targetDir || repoName
DirOf(target, url) == IF target # NotGiven THEN target ELSE RepoName(url)

CRest ==
    /\ cUrl = <<>>
    /\ cTarget = NotGiven
    /\ cForce = FALSE
    /\ cFs = {}
    /\ cDir = NotGiven
    /\ cPc = "returned"
    /\ cOps = {}

\* cloneRepo is called: the options are destructured, dir is computed
CloneDirCall ==
    /\ cPc = "called"
    /\ cDir' = DirOf(cTarget, cUrl)
    /\ cPc' = "exists?"
    /\ UNCHANGED <<cUrl, cTarget, cForce, cFs, cOps>>
    /\ UNCHANGED <<rvars, svars, pvars>>

\* if (fs.existsSync(dir)) ...
CloneDirCheck ==
    /\ cPc = "exists?"
    /\ cPc' = AfterExistsCheck(cDir \in cFs, cForce)
    /\ UNCHANGED <<cUrl, cTarget, cForce, cFs, cDir, cOps>>
    /\ UNCHANGED <<rvars, svars, pvars>>

CloneDirSkip ==
    /\ cPc = "skip"
    /\ cOps' = cOps \cup {Op("skip", cDir)}
    /\ cPc' = "returned"
    /\ UNCHANGED <<cUrl, cTarget, cForce, cFs, cDir>>
    /\ UNCHANGED <<rvars, svars, pvars>>

\* rmSync(dir, {recursive, force})
CloneDirRemove ==
    /\ cPc = "remove"
    /\ cFs' = cFs \ {cDir}
    /\ cOps' = cOps \cup {Op("rm", cDir)}
    /\ cPc' = "git"
    /\ UNCHANGED <<cUrl, cTarget, cForce, cDir>>
    /\ UNCHANGED <<rvars, svars, pvars>>

\* git clone ... repoUrl dir, and its outcome
CloneDirGit(ok) ==
    /\ cPc = "git"
    \* git cannot create a work tree whose name is empty
    /\ ok => cDir # NotGiven
    /\ cOps' = cOps \cup {Op("git", cDir)}
    /\ cFs' = IF ok THEN cFs \cup {cDir} ELSE cFs
    /\ cPc' = IF ok THEN "returned" ELSE "exited"
    /\ UNCHANGED <<cUrl, cTarget, cForce, cDir>>
    /\ UNCHANGED <<rvars, svars, pvars>>

CloneDirNext ==
    \/ CloneDirCall
    \/ CloneDirCheck
    \/ CloneDirSkip
    \/ CloneDirRemove
    \/ \E ok \in BOOLEAN : CloneDirGit(ok)

(***************************************************************************)
(* The sidebar patch of the theme.  The sidebar is a forest of items       *)
(* (.VPSidebarItem); an item with a link carries the class is-link and     *)
(* holds one anchor of its own, and the items nested in it hold theirs.    *)
(* The patch is a global mixin: every component instance that is mounted   *)
(* runs updateSidebarActive and registers a watcher of route.path.         *)
(***************************************************************************)
Items == 1..3

NoLink == "(no link)"

Hrefs == {"/guide/a", "/guide/b"}

Routes == Hrefs \cup {"/guide/c"}

IsLink(i) == pHref[i] # NoLink

\* (variant: the class is not removed first)
UpdateSidebarActiveNoRemove(active, route) ==
    active \cup {i \in Items : IsLink(i) /\ pHref[i] = route}

\* updateSidebarActive: is-active is removed from every item that is a link,
\* then added to the closest item of every anchor, inside an item that is a
\* link, whose href is route.path
UpdateSidebarActive(active, route) ==
    (active \ {i \in Items : IsLink(i)})
        \cup {i \in Items : IsLink(i) /\ pHref[i] = route}

PRest ==
    /\ pParent = [i \in Items |-> 0]
    /\ pHref = [i \in Items |-> NoLink]
    /\ pActive = {}
    /\ pRoute = "/guide/a"
    /\ pMounted = 0
    /\ pPending = 0
    /\ pNavs = 0

\* mounted() of a component instance
Mounted ==
    /\ pMounted < MaxMounts
    /\ pMounted' = pMounted + 1
    /\ pActive' = UpdateSidebarActive(pActive, pRoute)
    /\ UNCHANGED <<pParent, pHref, pRoute, pPending, pNavs>>
    /\ UNCHANGED <<rvars, svars, cvars>>

\* the router changes route.path: the callback of every watcher is queued
Navigate(path) ==
    /\ pNavs < MaxNavs
    /\ path # pRoute
    /\ pRoute' = path
    /\ pNavs' = pNavs + 1
    /\ pPending' = pMounted
    /\ UNCHANGED <<pParent, pHref, pActive, pMounted>>
    /\ UNCHANGED <<rvars, svars, cvars>>

\* the callback of one watcher runs
WatcherRun ==
    /\ pPending > 0
    /\ pPending' = pPending - 1
    /\ pActive' = UpdateSidebarActive(pActive, pRoute)
    /\ UNCHANGED <<pParent, pHref, pRoute, pMounted, pNavs>>
    /\ UNCHANGED <<rvars, svars, cvars>>

SidebarNext ==
    \/ Mounted
    \/ \E path \in Routes : Navigate(path)
    \/ WatcherRun

(***************************************************************************)
(* Specifications: the two scripts are separate programs.  Each is checked *)
(* with the other one at rest.  RefinerSpec runs the refiner over the      *)
(* first two entries of the list, with every index file of                 *)
(* InitialIndexFiles on disk; FullListSpec runs it over the whole list,    *)
(* from an empty api tree, with version bumps of the manifests between     *)
(* runs.                                                                   *)
(***************************************************************************)
RefinerInit ==
    /\ RInit
    /\ SInit
    /\ repoDir = "cloned"
    /\ CRest
    /\ PRest

SetupInit ==
    /\ SInit
    /\ CRest
    /\ PRest
    /\ listLen = 2
    /\ manifests = {}
    /\ inflight = {}
    /\ touched = {}
    /\ version = [p \in Packages |-> VersionNames[1]]
    /\ visited = {}
    /\ failedAt = 0
    /\ index = [p \in Packages |-> Absent]
    /\ sidebar = [p \in Packages |-> Absent]
    /\ dirs = [p \in Packages |-> FALSE]
    /\ desc = [p \in Packages |-> StaticDescription(p)]
    /\ rpc = "idle"
    /\ cur = 1
    /\ isMock = FALSE
    /\ isClean = FALSE
    /\ branch = NoBranch
    /\ wrote = {}
    /\ snap = index
    /\ snapValid = FALSE
    /\ stable = FALSE
    /\ everCleaned = FALSE
    /\ runs = 0
    /\ edits = 0

\* the refiner over the whole packageInfo list, started on an empty api tree
FullListInit ==
    /\ SInit
    /\ repoDir = "cloned"
    /\ CRest
    /\ PRest
    /\ listLen = Len(PackageInfoNames)
    /\ manifests \in {Packages, Packages \ {"plugin-env"}, {}}
    /\ inflight = {}
    /\ touched = {}
    /\ version = [p \in Packages |-> VersionNames[1]]
    /\ visited = {}
    /\ failedAt = 0
    /\ index = [p \in Packages |-> Absent]
    /\ sidebar = [p \in Packages |-> Absent]
    /\ dirs = [p \in Packages |-> FALSE]
    /\ desc = [p \in Packages |-> StaticDescription(p)]
    /\ rpc = "idle"
    /\ cur = 1
    /\ isMock = FALSE
    /\ isClean = FALSE
    /\ branch = NoBranch
    /\ wrote = {}
    /\ snap = index
    /\ snapValid = FALSE
    /\ stable = FALSE
    /\ everCleaned = FALSE
    /\ runs = 0
    /\ edits = 0

\* the refiner at rest, on an empty api tree
RRest ==
    /\ listLen = 2
    /\ manifests = {}
    /\ inflight = {}
    /\ touched = {}
    /\ version = [p \in Packages |-> VersionNames[1]]
    /\ visited = {}
    /\ failedAt = 0
    /\ index = [p \in Packages |-> Absent]
    /\ sidebar = [p \in Packages |-> Absent]
    /\ dirs = [p \in Packages |-> FALSE]
    /\ desc = [p \in Packages |-> StaticDescription(p)]
    /\ rpc = "idle"
    /\ cur = 1
    /\ isMock = FALSE
    /\ isClean = FALSE
    /\ branch = NoBranch
    /\ wrote = {}
    /\ snap = index
    /\ snapValid = FALSE
    /\ stable = FALSE
    /\ everCleaned = FALSE
    /\ runs = 0
    /\ edits = 0

\* cloneRepo is called with some options, in some directory
CloneDirInit ==
    /\ RRest
    /\ SInit
    /\ repoDir = "none"
    /\ PRest
    /\ cUrl \in Urls
    /\ cTarget \in {NotGiven, <<".vitepress/cache/kubricate">>}
    /\ cForce \in BOOLEAN
    /\ cFs \in SUBSET CandidateDirs
    /\ cDir = NotGiven
    /\ cPc = "called"
    /\ cOps = {}

\* the page is rendered with some sidebar, on some route; the classes are as
\* the server or the theme rendered them
SidebarInit ==
    /\ RRest
    /\ SInit
    /\ repoDir = "none"
    /\ CRest
    /\ pParent \in [Items -> 0..2]
    /\ \A i \in Items : pParent[i] < i
    /\ pHref \in [Items -> Hrefs \cup {NoLink}]
    /\ pActive \in SUBSET Items
    /\ pRoute \in Routes
    /\ pMounted = 0
    /\ pPending = 0
    /\ pNavs = 0

RefinerSpec == RefinerInit /\ [][RNext]_vars

CloneDirSpec == CloneDirInit /\ [][CloneDirNext]_vars

SidebarSpec == SidebarInit /\ [][SidebarNext]_vars

\* the refiner with the list as it is in the source: no entry is edited
FullListNext ==
    \/ \E mock \in BOOLEAN, clean \in BOOLEAN : RefinerStart(mock, clean)
    \/ \E p \in Packages : ManifestRead(p)
    \/ CleanPackage
    \/ GenerateMockSidebarJson
    \/ \E made \in BOOLEAN : GenerateMockSidebarJsonThrows(made)
    \/ UpdateMarkdownHeaders
    \/ \E made \in BOOLEAN : UpdateMarkdownHeadersThrows(made)
    \/ RefinerExit
    \/ RefinerCrash
    \/ BumpVersion

FullListSpec == FullListInit /\ [][FullListNext]_vars

SetupSpec == SetupInit /\ [][SNext]_vars

(***************************************************************************)
(* Properties of the markdown header refiner.                              *)
(***************************************************************************)
\* A second run in succession has finished: the run before it was a
\* successful non-clean run and nothing was edited in between.
SecondRunDone == rpc = "done" /\ ~isClean /\ snapValid /\ stable

\* number of positions at which sub occurs in s
Occurrences(s, sub) == Cardinality({i \in 1..Len(s) : OccursAt(s, sub, i)})

\* number of lines of s that are exactly line
LinesEqual(s, line) ==
    Cardinality({i \in 1..Len(s) :
        /\ LineStart(s, i)
        /\ OccursAt(s, line, i)
        /\ (i + Len(line) > Len(s) \/ s[i + Len(line)] = NL)})

\* the lines of s (split at NL)
RECURSIVE Lines(_)
Lines(s) ==
    IF \E i \in 1..Len(s) : s[i] = NL
    THEN LET i == CHOOSE k \in 1..Len(s) : s[k] = NL /\ \A j \in 1..(k - 1) : s[j] # NL
         IN  <<SubSeq(s, 1, i - 1)>> \o Lines(SubSeq(s, i + 1, Len(s)))
    ELSE <<s>>

\* the lines of s that are not empty
NonBlankLines(s) == SelectSeq(Lines(s), LAMBDA l : l # <<>>)

\* C1: after a second run in succession on unchanged input every index file
\* is byte-identical to what the first run left.
C1_Idempotent == SecondRunDone => index = snap

C1_Witness ==
    /\ SecondRunDone
    /\ index = snap
    /\ branch["core"] = "skip"
    /\ Includes(index["core"], Members)
    /\ Includes(index["core"], GENERATED_MARKER)
    /\ index["kubricate"] = TargetContent("kubricate", desc["kubricate"])

\* C2: a second run in succession on unchanged input writes no index file:
\* every package takes the skip branch.
C2_NoWriteOnRerun ==
    SecondRunDone => (wrote = {} /\ \A p \in Packages : branch[p] = "skip")

\* C3: after any sequence of successful non-clean runs every existing index
\* file holds exactly one header block: one marker, one link line, one title
\* line.  (Stated for the files that carry a generated header; a file in
\* which the refiner finds no heading is left without any header block.)
C3_OneHeaderBlock ==
    (rpc = "idle" /\ runs >= 1 /\ ~everCleaned) =>
        \A p \in Packages :
            (index[p] # Absent /\ Includes(index[p], GENERATED_MARKER)) =>
                /\ Occurrences(index[p], GENERATED_MARKER) = 1
                /\ LinesEqual(index[p], LinkLine(p)) = 1
                /\ LinesEqual(index[p], NewHeader(p)) = 1

\* the step is a call of updateMarkdownHeaders for package p that returns
HeadersStepOn(p) == rpc = "headers" /\ PkgOrder[cur] = p /\ failedAt' = failedAt

\* last position of the line of s that contains position i
RECURSIVE LineEnd(_, _)
LineEnd(s, i) == IF i < Len(s) /\ s[i + 1] # NL THEN LineEnd(s, i + 1) ELSE i

\* the header block, as written (with or without its trailing blank line)
HeaderBlocks(p) ==
    {TargetContent(p, desc[p]), Trim(TargetContent(p, desc[p]))}

\* C4: when the index file exists without the marker/content, the title
\* heading line of the package is replaced by the header block and every
\* other byte of the file is kept, the whitespace and text after the heading
\* line included.
C4_PatchPreservesRest ==
    [][\A p \in Packages :
        LET s == index[p]
            i == MatchStart(s, FullName(p))
        IN  ( /\ HeadersStepOn(p)
              /\ s # Absent
              /\ ~IsUpToDate(s, TargetContent(p, desc[p]))
              /\ i # 0 )
            => \E b \in HeaderBlocks(p) :
                  index'[p] = SubSeq(s, 1, i - 1) \o b
                                  \o SubSeq(s, LineEnd(s, i) + 1, Len(s))
      ]_vars

StaleTitles(p) ==
    { NewHeader(p),
      <<"#", SP>> \o FullName(p) \o <<SP, "API", SP, "Documentation">> }

\* C6: when the index file holds the title heading of the package followed by
\* a stale description and further content, a run with the updated
\* description replaces that heading block by the new header block and
\* leaves the content after it untouched.
C6_StaleBlockReplaced ==
    [][\A p \in Packages :
        \A d \in Descriptions(p) \ {desc[p]} :
            \A t \in StaleTitles(p) :
                LET s == index[p]
                    i == MatchStart(s, FullName(p))
                    old == t \o <<NL, NL>> \o d
                IN  ( /\ HeadersStepOn(p)
                      /\ s # Absent
                      /\ i # 0
                      /\ OccursAt(s, old, i)
                      /\ Len(s) > i + Len(old) - 1 )
                    => \E b \in HeaderBlocks(p) :
                          index'[p] = SubSeq(s, 1, i - 1) \o b
                                          \o SubSeq(s, i + Len(old), Len(s))
      ]_vars

\* C7 as stated: a created index file starts with the link line, then the
\* title line "# N API Documentation", then the description.
C7_FirstLinesAsStated ==
    \A p \in Packages :
        (rpc # "idle" /\ branch[p] = "create") =>
            LET l == NonBlankLines(index[p]) IN
                /\ Len(l) >= 3
                /\ l[1] = <<"[All Packages](../index.md)", SP, "/", SP>> \o FullName(p)
                /\ l[2] = <<"#", SP>> \o FullName(p) \o <<SP, "API", SP, "Documentation">>
                /\ l[3] = desc[p]

\* C7 (amended): a created index file consists of the generated-marker line,
\* the link line "[All Packages](../index.md) / N", the title line
\* "# N Documentation" and the description, each followed by a blank line.
C7_FirstLines ==
    \A p \in Packages :
        (rpc # "idle" /\ branch[p] = "create") =>
            Lines(index[p]) =
                << <<"<!-- @generated -->">>,
                   <<>>,
                   <<"[All Packages](../index.md)", SP, "/", SP>> \o FullName(p),
                   <<>>,
                   <<"#", SP>> \o FullName(p) \o <<SP, "Documentation">>,
                   <<>>,
                   desc[p],
                   <<>>,
                   <<>> >>

C7_Witness ==
    /\ rpc = "headers"
    /\ branch["kubricate"] = "create"
    /\ NonBlankLines(index["kubricate"])[4] = StaticDescription("kubricate")

(***************************************************************************)
(* Properties of the repository setup script.                              *)
(***************************************************************************)
FailureEvents == {"git failed", "llm failed", "install failed", "build failed"}

\* C8: two cloneRepo calls in succession with force false invoke git clone
\* at most once: when the target directory exists, a call with force false
\* logs "Skipped", returns, invokes no git and leaves the directory as it is.
C8_SkipWhenExists ==
    /\ (prev.valid /\ ~prev.force /\ prev.returned /\ ~force) =>
            /\ "git" \notin Events(log)
            /\ gitCalls - prev.gitsBefore <= 1
    /\ (setups >= 1 /\ ~force /\ Exists(dirAtCall) /\ spc # "cloneRepo") =>
            /\ "git" \notin Events(log)
            /\ "removed" \notin Events(log)
            /\ spc = "skip" \/ (log # <<>> /\ log[1] = "skipped")
            /\ spc \in {"skip", "llm"} => repoDir = dirAtCall

C8_Witness ==
    /\ prev.valid /\ ~prev.force /\ prev.returned /\ ~force
    /\ gitCalls = 1
    /\ spc = "llm"
    /\ log = <<"skipped">>
    /\ repoDir = "cloned"

\* C9: a cloneRepo call with force true on an existing target directory
\* removes the directory first and then starts git clone, in the same call;
\* no removal happens otherwise or later.
C9_ForceRemovesFirst ==
    /\ (setups >= 1 /\ force /\ Exists(dirAtCall) /\ spc \notin {"cloneRepo", "remove"}) =>
            /\ log # <<>> /\ log[1] = "removed"
            /\ spc = "git" \/ (Len(log) >= 2 /\ log[2] = "git")
    /\ \A i \in 1..Len(log) :
            log[i] = "removed" => (i = 1 /\ force /\ Exists(dirAtCall))
    /\ spc = "git" => ~Exists(repoDir)

C9_Witness ==
    /\ force
    /\ dirAtCall = "built"
    /\ Len(log) >= 3
    /\ log[1] = "removed" /\ log[2] = "git" /\ log[3] = "git ok"
    /\ repoDir = "cloned"

\* C10: a failed clone, install or build subprocess ends the process with
\* exit code 1 at once: no later step is started, nothing is retried and the
\* success message is not logged.
C10_FailFast ==
    /\ \A i \in 1..Len(log) :
            log[i] \in FailureEvents =>
                /\ i = Len(log)
                /\ spc = "exited"
                /\ exitCode = 1
    /\ \A e \in {"git", "llm", "install", "build"} :
            Cardinality({i \in 1..Len(log) : log[i] = e}) <= 1
    /\ "success" \in Events(log) => exitCode = 0

C10_Witness ==
    /\ spc = "exited"
    /\ exitCode = 1
    /\ log = <<"git", "git ok", "llm", "llm ok", "install", "install failed">>

\* position of the first occurrence of event e in the events l, 0 if none
FirstAt(l, e) ==
    IF e \in Events(l) THEN CHOOSE i \in 1..Len(l) : l[i] = e /\ \A j \in 1..(i - 1) : l[j] # e
    ELSE 0

\* event a occurs in l, and before every occurrence of event b
Precedes(l, a, b) ==
    \A i \in 1..Len(l) : l[i] = b => (FirstAt(l, a) # 0 /\ FirstAt(l, a) < i)

\* C11: in every run of the setup script the steps are strictly ordered:
\* installation starts only after the clone step has finished (cloned or
\* skipped), the build starts only after installation has succeeded, the
\* success message is logged only after the build has succeeded, and at no
\* time are two subprocesses of the script running.
C11_StepsOrdered ==
    /\ Cardinality(running) <= 1
    /\ Precedes(log, "git ok", "install") \/ Precedes(log, "skipped", "install")
    /\ Precedes(log, "install ok", "build")
    /\ Precedes(log, "build ok", "success")
    /\ spc \in {"install", "build", "resolved", "exited"} => running = {}

C11_Witness ==
    /\ spc = "exited"
    /\ log = <<"git", "git ok", "llm", "llm ok", "install", "install ok",
               "build", "build ok", "success">>
    /\ repoDir = "built"

\* the elements of an argument vector
ArgSet(argv) == {argv[i] : i \in 1..Len(argv)}

\* C17 as stated: the clone is shallow (depth-limited) and single-branch.
C17_ShallowSingleBranchClone ==
    gitArgs # <<>> =>
        /\ "--depth" \in ArgSet(gitArgs)
        /\ "--single-branch" \in ArgSet(gitArgs)

\* C17: the clone step runs git clone for the requested branch only
\* (--branch <branch> --single-branch) of the repository URL into the target
\* directory, and passes no depth limit: the whole history of that branch is
\* fetched.
C17_SingleBranchFullClone ==
    gitArgs # <<>> =>
        /\ gitArgs = <<"clone", "--branch", Branch, "--single-branch", RepoUrl, TargetDir>>
        /\ "--depth" \notin ArgSet(gitArgs)

C17_Witness ==
    /\ gitArgs # <<>>
    /\ "git ok" \in Events(log)
    /\ repoDir = "cloned"
    /\ spc = "llm"

(***************************************************************************)
(* Properties of the refiner: failures, modes, the manifest reads.         *)
(***************************************************************************)
\* the packages after position i of the list
Later(i) == {PkgOrder[j] : j \in (i + 1)..Len(PkgOrder)}

\* C12: a failure while the index file (or the sidebar file) of one package is
\* read or written is a thrown error that stops the batch: main is rejected
\* at that package, and no file of a package later in the list is read,
\* created or modified in that run.
C12_FailureStopsBatch ==
    failedAt # 0 =>
        /\ rpc = "failed"
        /\ cur = failedAt
        /\ visited \cap Later(failedAt) = {}
        /\ \A p \in Later(failedAt) : branch[p] = "none" /\ p \notin wrote

C12_Witness ==
    /\ rpc = "failed"
    /\ failedAt = 1
    /\ ~isMock
    /\ visited = {"kubricate"}
    /\ index["kubricate"] # Absent
    /\ index["core"] = <<"#", SP>> \o FullName("core")

C14_NothingInParallel == Cardinality(inflight) <= 1

\* C14: the loops of main handle one package at a time and start only when no
\* manifest read is in flight; the manifest reads themselves are all started
\* together (Promise.all over the list) and settle in any order.
C14_SequentialLoops ==
    /\ inflight # {} => (rpc \in {"resolving", "failed"} /\ visited = {})
    /\ rpc \in {"clean", "sidebar", "headers"} =>
            /\ inflight = {}
            /\ cur \in 1..Len(PkgOrder)
            /\ visited \subseteq {PkgOrder[j] : j \in 1..cur}
    /\ rpc = "done" => (inflight = {} /\ visited = Packages)

C14_Witness ==
    /\ rpc = "resolving"
    /\ Cardinality(inflight) = 2
    /\ ~isMock
    /\ ~isClean
    /\ manifests = Packages

\* C15: in clean mode the refiner deletes api/<p> of every listed package and
\* returns: it never runs the sidebar step or the header step, also when
\* --mock is passed as well, and when the run has completed no directory,
\* index file or sidebar file of a listed package exists.
C15_CleanDeletesAll ==
    /\ (rpc # "idle" /\ isClean) =>
            /\ rpc \in {"resolving", "clean", "done", "failed"}
            /\ wrote = {}
            /\ branch = NoBranch
            /\ \A p \in visited :
                    ~dirs[p] /\ index[p] = Absent /\ sidebar[p] = Absent
    /\ (rpc = "done" /\ isClean) => visited = Packages

C15_Witness ==
    /\ rpc = "done"
    /\ isClean
    /\ isMock
    /\ snap["kubricate"] # Absent
    /\ snap["core"] # Absent
    /\ \A p \in Packages : ~dirs[p]

HeadingTitle(s, i) ==
    IF LineStart(s, i) /\ s[i] = "#" /\ i < Len(s) /\ s[i + 1] = SP
    THEN Trim(SubSeq(s, i + 1, LineEnd(s, i)))
    ELSE <<"(no heading)">>

\* positions of the heading lines of s whose title is exactly name
ExactHeadings(s, name) == {i \in 1..Len(s) : HeadingTitle(s, i) = name}

\* C18: the patch is scoped to the exact name of the package: a file without
\* a heading line whose title is exactly the published name is left as it
\* is; a heading whose title only begins with the name is not matched.
C18_ExactNameOnly ==
    [][\A p \in Packages :
        ( /\ HeadersStepOn(p)
          /\ index[p] # Absent
          /\ ExactHeadings(index[p], FullName(p)) = {} )
        => index'[p] = index[p]
      ]_vars

\* C19: a mock run creates placeholder files only where they are not present:
\* an index file or sidebar file that exists is left with its contents.
C19_MockKeepsExisting ==
    [][\A p \in Packages :
        (rpc \in {"sidebar", "headers"} /\ isMock) =>
            /\ index[p] # Absent => index'[p] = index[p]
            /\ sidebar[p] # Absent => sidebar'[p] = sidebar[p]
      ]_vars

\* the packages whose api/<p>/typedoc-sidebar.json the site configuration
\* imports
SidebarImports ==
    {"core", "plugin-env", "plugin-kubernetes", "stacks", "toolkit", "kubricate"}

\* C20: when a mock run over the whole list has completed, every sidebar file
\* the site configuration imports exists, and the packages with a stub are
\* exactly the packages whose sidebar the configuration imports.
C20_StubsCoverImports ==
    (rpc = "done" /\ isMock /\ ~isClean) =>
        /\ \A q \in SidebarImports : q \in DOMAIN sidebar /\ sidebar[q] # Absent
        /\ {p \in Packages : sidebar[p] # Absent} = SidebarImports

C20_Witness ==
    /\ rpc = "done"
    /\ isMock
    /\ ~isClean
    /\ runs = 1
    /\ listLen = 6
    /\ \A q \in SidebarImports : sidebar[q] = MockSidebar(q)

(***************************************************************************)
(* Further properties of the setup script.                                 *)
(***************************************************************************)
\* C28: the LLM context is gathered right after the clone step, whether the
\* clone ran or was skipped, and before dependency installation; when it
\* fails the process exits with code 1 and neither install nor build is
\* started.
C28_ContextBeforeInstall ==
    /\ \A i \in 1..Len(log) :
            log[i] = "llm" => (i > 1 /\ log[i - 1] \in {"git ok", "skipped"})
    /\ Precedes(log, "llm ok", "install")
    /\ "llm failed" \in Events(log) =>
            /\ spc = "exited"
            /\ exitCode = 1
            /\ {"install", "build", "success"} \cap Events(log) = {}
    /\ spc \in {"install", "install.await"} => log[Len(log) - (IF spc = "install" THEN 0 ELSE 1)] = "llm ok"

C28_Witness ==
    /\ spc = "exited"
    /\ exitCode = 1
    /\ log = <<"skipped", "llm", "llm failed">>
    /\ repoDir = "cloned"

(***************************************************************************)
(* Further properties of the refiner.                                      *)
(***************************************************************************)
\* C21: a run with --mock reads no manifest of the companion repository and
\* so does not fail when the repository has not been cloned.
C21_MockSkipsManifests ==
    (rpc # "idle" /\ isMock /\ ~isClean) =>
        /\ \A p \in Packages : Op("read", ManifestPath(p)) \notin touched
        /\ inflight = {}
        /\ rpc = "failed" => failedAt # 0

\* C23: every manifest is resolved before the api tree is changed: a step
\* that creates, modifies or deletes an index file, a sidebar file or an
\* output directory is taken only when all manifest reads have resolved, and
\* a run that fails on a manifest has done nothing but read.
C23_ResolveBeforeMutation ==
    [][ /\ (index' # index \/ sidebar' # sidebar \/ dirs' # dirs) =>
                /\ inflight = {}
                /\ manifests = Packages
                /\ rpc \in {"clean", "sidebar", "headers"}
        /\ (rpc = "failed" /\ failedAt = 0) =>
                /\ visited = {}
                /\ \A t \in touched : t.op = "read"
                /\ index' = index /\ sidebar' = sidebar /\ dirs' = dirs
      ]_vars

C23_Witness ==
    /\ rpc = "failed"
    /\ failedAt = 0
    /\ ~isMock
    /\ ~isClean
    /\ runs = 1
    /\ manifests = {"kubricate"}
    /\ inflight = {}
    /\ index["kubricate"] # Absent
    /\ index = snap

\* C24: when the index file that exists holds neither the up-to-date header
\* block nor a heading line the pattern matches, the header step leaves the
\* contents of the file as they are and returns without an error.
C24_NoMatchNoChange ==
    [][\A p \in Packages :
        ( /\ rpc = "headers" /\ PkgOrder[cur] = p
          /\ index[p] # Absent
          /\ ~IsUpToDate(index[p], TargetContent(p, desc[p]))
          /\ MatchStart(index[p], FullName(p)) = 0 )
        => \/ /\ index' = index
              /\ sidebar' = sidebar
              /\ dirs' = dirs
              /\ rpc' = AfterPackage(cur, isMock)
              /\ failedAt' = 0
           \/ failedAt' = cur      \* the filesystem failed
      ]_vars

C24_Witness ==
    /\ rpc = "done"
    /\ ~isMock
    /\ branch["kubricate"] = "patch"
    /\ index["kubricate"] = Members
    /\ branch["core"] = "patch"
    /\ index["core"] = <<>>

\* a is b or an ancestor directory of b
IsPrefix(a, b) == Len(a) <= Len(b) /\ SubSeq(b, 1, Len(a)) = a

\* the shared "All Packages" page
AllPackagesPage == <<"api", "index.md">>

\* C25: in every mode the refiner writes only api/<name>/index.md and
\* api/<name>/typedoc-sidebar.json of listed packages, makes only api/<name>,
\* removes only api/<name> and only in a clean run, and so never modifies or
\* deletes api/index.md or a file of the companion repository, which it only
\* reads.
C25_OnlyPackagePaths ==
    \A t \in touched :
        /\ t.op = "write" =>
                \E p \in Packages : t.path \in {IndexPath(p), SidebarPath(p)}
        /\ t.op = "mkdir" => \E p \in Packages : t.path = ApiPath(p)
        /\ t.op = "rm" => (isClean /\ \E p \in Packages : t.path = ApiPath(p))
        /\ t.op = "read" =>
                \E p \in Packages : t.path \in {IndexPath(p), ManifestPath(p)}
        /\ t.op \in {"write", "rm"} =>
                /\ ~IsPrefix(t.path, AllPackagesPage)
                /\ ~IsPrefix(KUBRICATE_TARGET_PATH, t.path)
        /\ t.op \in {"write", "mkdir", "rm", "read"}

C25_Witness ==
    /\ rpc = "done"
    /\ isMock
    /\ ~isClean
    /\ Op("write", SidebarPath("core")) \in touched
    /\ Op("write", IndexPath("kubricate")) \in touched
    /\ Op("read", ManifestPath("core")) \in touched
    /\ branch["core"] = "skip"

\* C26: the header block does not depend on the version field of the
\* manifest: when only versions have changed since a completed run, the next
\* run skips every package and leaves every index file byte for byte as it
\* was, and no index file carries a version.
C26_VersionIndependent ==
    /\ SecondRunDone =>
            /\ wrote = {}
            /\ index = snap
            /\ \A p \in Packages : branch[p] = "skip"
    /\ \A p \in Packages : \A n \in 1..Len(VersionNames) :
            index[p] # Absent => ~Includes(index[p], <<VersionNames[n]>>)

C26_Witness ==
    /\ SecondRunDone
    /\ runs = 2
    /\ version["core"] = VersionNames[2]
    /\ wrote = {}
    /\ index["core"] = TargetContent("core", desc["core"])

\* C27: a clean run succeeds on missing targets and is idempotent: removing
\* api/<name> when it does not exist changes nothing and is not an error, no
\* step of the clean loop fails, and after a completed clean run nothing of
\* the listed packages exists, so that a second clean run leaves the same
\* state.
C27_CleanIdempotent ==
    [][ /\ (rpc = "clean" /\ ~dirs[PkgOrder[cur]]) =>
                /\ index' = index
                /\ sidebar' = sidebar
                /\ dirs' = dirs
        /\ rpc = "clean" =>
                /\ rpc' = (IF cur >= Len(PkgOrder) THEN "done" ELSE "clean")
                /\ failedAt' = 0
        /\ (rpc = "done" /\ isClean) =>
                \A p \in Packages :
                    ~dirs[p] /\ index[p] = Absent /\ sidebar[p] = Absent
      ]_vars

C27_Witness ==
    /\ rpc = "done"
    /\ isClean
    /\ ~isMock
    /\ runs = 2
    /\ \A p \in Packages : snap[p] = Absent
    /\ touched = {Op("read", ManifestPath(p)) : p \in Packages}
                    \cup {Op("rm", ApiPath(p)) : p \in Packages}
(***************************************************************************)
(* C29: when no target directory is given, the clone step works in the     *)
(* directory named after the repository: the last "/"-separated segment of *)
(* the URL, less one trailing ".git"; the skip of an existing directory,   *)
(* its removal under force, and the clone all act on that directory.       *)
(***************************************************************************)
\* seg is the last "/"-separated segment of url
IsLastSegment(seg, url) ==
    \E k \in 0..Len(url) :
        /\ k > 0 => url[k] = "/"
        /\ \A j \in (k + 1)..Len(url) : url[j] # "/"
        /\ seg = SubSeq(url, k + 1, Len(url))

\* name is seg with a trailing ".git" removed
WithoutDotGit(name, seg) ==
    \/ seg = name \o <<".git">>
    \/ seg = name /\ (Len(seg) = 0 \/ seg[Len(seg)] # ".git")

C29_DerivedDirectory ==
    (cTarget = NotGiven /\ cPc # "called") =>
        /\ \E seg \in {SubSeq(cUrl, a, Len(cUrl)) : a \in 1..(Len(cUrl) + 1)} :
              IsLastSegment(seg, cUrl) /\ WithoutDotGit(cDir, seg)
        /\ \A o \in cOps : o.path = cDir
        /\ Op("skip", cDir) \in cOps => ~cForce /\ cDir \in cFs
        /\ Op("rm", cDir) \in cOps => cForce
        /\ cPc = "returned" => Op("skip", cDir) \in cOps \/ Op("git", cDir) \in cOps
        /\ (Op("git", cDir) \in cOps /\ Op("rm", cDir) \notin cOps) =>
              \/ cPc = "exited" /\ cDir \notin cFs
              \/ cPc = "returned"

C29_Witness ==
    /\ cTarget = NotGiven
    /\ cUrl = <<"https:", "/", "/", "github.com", "/", "thaitype", "/", "kubricate", ".git">>
    /\ cDir = <<"kubricate">>
    /\ cForce
    /\ cOps = {Op("rm", cDir), Op("git", cDir)}
    /\ cPc = "returned"

(***************************************************************************)
(* C22: once the sidebar patch has run on mount, and again after every     *)
(* change of the route path once the watchers have run, an item that is a  *)
(* link carries is-active if and only if the href of its own anchor is the *)
(* current route path; an item activated for an earlier route has lost the *)
(* class.  An item that only holds a matching anchor inside a nested item  *)
(* is not marked: closest() stops at the nested item.                      *)
(***************************************************************************)
\* item j is item i or is nested in it: the anchor of j is inside the element of i
Holds(i, j) ==
    \/ i = j
    \/ pParent[j] = i
    \/ pParent[j] # 0 /\ pParent[pParent[j]] = i

PatchSettled == pMounted > 0 /\ pPending = 0

C22_ActiveIffOwnAnchor ==
    PatchSettled =>
        \A i \in Items : IsLink(i) => (i \in pActive <=> pHref[i] = pRoute)

\* C22 as worded: the item is active iff it contains an anchor with that href
C22_ActiveIffContainsAnchor ==
    PatchSettled =>
        \A i \in Items : IsLink(i) =>
            (i \in pActive <=> \E j \in Items : Holds(i, j) /\ IsLink(j) /\ pHref[j] = pRoute)

C22_Witness ==
    /\ PatchSettled
    /\ pNavs = 1
    /\ pParent[2] = 1
    /\ pHref[1] = "/guide/a"
    /\ pHref[2] = "/guide/b"
    /\ pHref[3] = "/guide/a"
    /\ pRoute = "/guide/b"
    /\ pActive = {2}

====
